---- MODULE Spec2Model ----
(***************************************************************************)
(* A model of cloudresty/go-elastic: the scroll iterators, the Client's    *)
(* connection manager (connect, Ping, health loop, attemptReconnect,       *)
(* Close), the ShutdownManager and NewClient's option processing.          *)
(* Each part has its own specification; the variables of the other parts   *)
(* stay at their idle values under it.                                      *)
(***************************************************************************)
EXTENDS Integers, Sequences, FiniteSets, TLC

\* ---------------------------------------------------------------- bounds
MaxDocs == 3          \* documents matched by a scroll search
MaxSize == 2          \* scroll batch size
MaxClearFail == 2     \* clear-scroll requests the server may fail
MaxAttempts == 2      \* largest configured MaxReconnectAttempts
MaxDelay == 2         \* largest configured reconnect delay (in delay units)
MaxTimeout == 2       \* largest ShutdownConfig.Timeout (in clock units)
MaxGrace == 2         \* largest ShutdownConfig.GracePeriod
MaxForceKill == 1     \* largest ShutdownConfig.ForceKillTimeout
MaxReg == 2           \* instances registered with a ShutdownManager, in all
MaxSignals == 2       \* shutdown signals delivered to the process
MaxOptions == 2       \* options passed to one NewClient call
MaxNow == 2           \* readings of the clock a write may see
MaxOps == 2           \* operations accumulated in one BulkIndexer
MaxSearchOptions == 2 \* options passed to one search
MaxCalls == 2         \* methods chained on one query Builder

VARIABLES
  \* scroll iterator (TypedSearchIterator) and its server-side scroll context
  it, srvTotal, srvSize, srvDelivered, srvLive,
  clearIssued, clearFailed, closeCalled, lastNext, lastScan, everTrue, everFalse,
  closeOk, lastClose,
  \* Client: configuration, the fields of the struct, the mutex, the ticker, the
  \* goroutines' positions and locals, and the server
  ccfg, client, isConnected, reconnectCount, mutexW, shutdownClosed, ticker,
  tickPending, pc, attempts, delay, probeOk, serverUp, lastSleep, lastPing,
  closeReturned, onceDone, closePanic,
  \* ShutdownManager: its configuration and fields, the signals, the clock (the
  \* time since the running shutdown() noted its start), and
  \* the run of shutdown() in progress (or the last one) with its drain worker
  smcfg, clients, resources, notified, sigBuf, signalsSent, ctxCancelled, now,
  aborted, drains, wpc, kpc, snapC, snapR, kidx, deadline, graceWake,
  forceWake, doneAt, endAt, closeLog, closedAt,
  \* the last read of the Client's handle by a caller's operation
  lastRead,
  \* NewClient: the environment, the server, the options of the call, its result
  ncEnv, ncUp, ncOptions, ncResult,
  \* Documents: the Client's id mode, the clock, the BulkIndexer's operations,
  \* the call made
  dMode, dNow, dOps, dCall,
  \* Search options and the query Builder: the options and body of the search
  \* made, the Builder's query, the methods called on it and the last call,
  \* the indices the search request names, the query of a second Builder
  qOptions, qBody, qSearched, qBuilder, qCalls, qLast, qIndex, qChild,
  \* The start of a scroll: the matching documents, the batch size, the first
  \* batch, the server's answer, the server's scroll context, what Scroll returned
  stTotal, stSize, stHits, stAnswer, stLive, stRet

scrollVars == <<it, srvTotal, srvSize, srvDelivered, srvLive,
                clearIssued, clearFailed, closeCalled, lastNext, lastScan,
                everTrue, everFalse, closeOk, lastClose>>

clientVars == <<ccfg, client, isConnected, reconnectCount, mutexW, shutdownClosed,
                ticker, tickPending, pc, attempts, delay, probeOk, serverUp,
                lastSleep, lastPing, closeReturned, onceDone, closePanic, lastRead>>

smVars == <<smcfg, clients, resources, notified, sigBuf, signalsSent, ctxCancelled,
            now, aborted, drains, wpc, kpc, snapC, snapR, kidx, deadline,
            graceWake, forceWake, doneAt, endAt, closeLog, closedAt>>

cfgVars == <<ncEnv, ncUp, ncOptions, ncResult>>

docVars == <<dMode, dNow, dOps, dCall>>

queryVars == <<qOptions, qBody, qSearched, qBuilder, qCalls, qLast, qIndex, qChild>>

startVars == <<stTotal, stSize, stHits, stAnswer, stLive, stRet>>

vars == <<scrollVars, clientVars, smVars, cfgVars, docVars, queryVars, startVars>>

\* What the actions of one part leave alone: the variables of the other parts.
notScroll == <<clientVars, smVars, cfgVars, docVars, queryVars, startVars>>
notClient == <<scrollVars, smVars, cfgVars, docVars, queryVars, startVars>>
notShutdown == <<scrollVars, clientVars, cfgVars, docVars, queryVars, startVars>>
notConfig == <<scrollVars, clientVars, smVars, docVars, queryVars, startVars>>
notDocs == <<scrollVars, clientVars, smVars, cfgVars, queryVars, startVars>>
notStart == <<scrollVars, clientVars, smVars, cfgVars, docVars, queryVars>>
notQuery == <<scrollVars, clientVars, smVars, cfgVars, docVars, startVars>>

Min(a, b) == IF a < b THEN a ELSE b

\* ======================================================================
\* Scroll iterators
\* ======================================================================
NoScroll == 0         \* the empty scroll id ""
CtxId == 1            \* the scroll id the server gives for the open context

\* The hits the server delivers for the next page of the scroll context.
ServerBatch(total, size, delivered) ==
  LET k == Min(size, total - delivered)
  IN  [i \in 1..k |-> delivered + i]

\* TypedDocuments.Scroll: the iterator built from the initial response.
Scroll(total, size) ==
  [scrollID |-> CtxId,
   currentHits |-> ServerBatch(total, size, 0),
   currentIndex |-> -1,
   done |-> FALSE,
   err |-> FALSE,
   processedHits |-> 0]

\* fetchNextBatch: out is what the scroll-continue request and the conversion
\* of its response do ("ok", "reqfail": the request fails, "convfail": the
\* response arrives and a hit does not convert to T).
fetchNextBatch(i, out, batch) ==
  IF out = "reqfail" THEN [it |-> i, failed |-> TRUE]
  ELSE IF out = "convfail"
       THEN [it |-> [i EXCEPT !.scrollID = CtxId], failed |-> TRUE]
  ELSE [it |-> [i EXCEPT !.scrollID = CtxId,
                         !.currentHits = batch,
                         !.currentIndex = -1],
        failed |-> FALSE]

\* A faulty clearScroll, which C17 must tell apart from the real one: the
\* request goes out whether or not the iterator still holds a scroll id.
clearScrollAlways(i, cout) ==
  IF cout = "ok" THEN [it |-> [i EXCEPT !.scrollID = NoScroll], issued |-> TRUE]
  ELSE [it |-> i, issued |-> TRUE]

\* SearchScroll.Clear as seen by the iterator: cout is the request's outcome.
\* [it, issued]: the iterator after the call and whether a request went out.
clearScroll(i, cout) ==
  IF i.scrollID = NoScroll THEN [it |-> i, issued |-> FALSE]
  ELSE IF cout = "ok" THEN [it |-> [i EXCEPT !.scrollID = NoScroll], issued |-> TRUE]
  ELSE [it |-> i, issued |-> TRUE]

\* What TypedSearchIterator.Next does when the fetched batch is empty: it marks
\* the iterator done and returns; no clear-scroll request goes out.
OnEmptyBatch(i, cout) ==
  [it |-> [i EXCEPT !.done = TRUE], issued |-> FALSE]

\* Next: [it, ret, fetched, emptyFetch, issued]
NextStep(i, out, cout, batch) ==
  IF i.err \/ i.done
  THEN [it |-> i, ret |-> "false", fetched |-> FALSE, emptyFetch |-> FALSE, issued |-> FALSE]
  ELSE IF i.currentIndex < Len(i.currentHits) - 1
  THEN [it |-> [i EXCEPT !.currentIndex = @ + 1, !.processedHits = @ + 1],
        ret |-> "true", fetched |-> FALSE, emptyFetch |-> FALSE, issued |-> FALSE]
  ELSE IF i.scrollID = NoScroll
  THEN [it |-> [i EXCEPT !.done = TRUE],
        ret |-> "false", fetched |-> FALSE, emptyFetch |-> FALSE, issued |-> FALSE]
  ELSE LET f == fetchNextBatch(i, out, batch) IN
       IF f.failed
       THEN [it |-> [f.it EXCEPT !.err = TRUE],
             ret |-> "false", fetched |-> (out # "reqfail"), emptyFetch |-> FALSE, issued |-> FALSE]
       ELSE IF Len(f.it.currentHits) = 0
       THEN LET e == OnEmptyBatch(f.it, cout) IN
            [it |-> e.it, ret |-> "false", fetched |-> TRUE, emptyFetch |-> TRUE,
             issued |-> e.issued]
       ELSE [it |-> [f.it EXCEPT !.currentIndex = 0, !.processedHits = @ + 1],
             ret |-> "true", fetched |-> TRUE, emptyFetch |-> FALSE, issued |-> FALSE]

\* TypedSearchIterator.Scan: "ok" (the current hit is copied out) or "err".
ScanResult(i) ==
  IF i.currentIndex < 0 \/ i.currentIndex >= Len(i.currentHits) THEN "err" ELSE "ok"

\* TypedSearchIterator.Close: clear the scroll when the id is not empty.
CloseStep(i, cout) == clearScroll(i, cout)

ClearOutcomes == IF clearFailed < MaxClearFail THEN {"ok", "fail"} ELSE {"ok"}
FetchOutcomes == {"ok", "reqfail", "convfail"}

\* The server's side of a clear-scroll request.
ServerClear(issued, cout) ==
  /\ clearIssued' = IF issued THEN clearIssued + 1 ELSE clearIssued
  /\ clearFailed' = IF issued /\ cout = "fail" THEN clearFailed + 1 ELSE clearFailed
  /\ srvLive' = IF issued /\ cout = "ok" THEN FALSE ELSE srvLive

InitScroll ==
  /\ srvTotal \in 0..MaxDocs
  /\ srvSize \in 1..MaxSize
  /\ it = Scroll(srvTotal, srvSize)
  /\ srvDelivered = Min(srvSize, srvTotal)
  /\ srvLive = TRUE
  /\ clearIssued = 0
  /\ clearFailed = 0
  /\ closeCalled = FALSE
  /\ lastNext = [ret |-> "none", emptyFetch |-> FALSE, issued |-> FALSE]
  /\ lastScan = [pre |-> FALSE, res |-> "none"]
  /\ everTrue = FALSE
  /\ everFalse = FALSE
  /\ closeOk = FALSE
  /\ lastClose = [afterAny |-> FALSE, afterOk |-> FALSE, issued |-> FALSE,
                  changed |-> FALSE]

\* The scroll part at rest, under the other parts' specifications.
IdleScroll ==
  /\ srvTotal = 0
  /\ srvSize = 1
  /\ it = Scroll(0, 1)
  /\ srvDelivered = 0
  /\ srvLive = FALSE
  /\ clearIssued = 0
  /\ clearFailed = 0
  /\ closeCalled = FALSE
  /\ lastNext = [ret |-> "none", emptyFetch |-> FALSE, issued |-> FALSE]
  /\ lastScan = [pre |-> FALSE, res |-> "none"]
  /\ everTrue = FALSE
  /\ everFalse = FALSE
  /\ closeOk = FALSE
  /\ lastClose = [afterAny |-> FALSE, afterOk |-> FALSE, issued |-> FALSE,
                  changed |-> FALSE]

IterNext ==
  \E out \in FetchOutcomes, cout \in ClearOutcomes :
    LET batch == ServerBatch(srvTotal, srvSize, srvDelivered)
        n == NextStep(it, out, cout, batch)
    IN  /\ it' = n.it
        /\ srvDelivered' = IF n.fetched THEN srvDelivered + Len(batch) ELSE srvDelivered
        /\ ServerClear(n.issued, cout)
        /\ lastNext' = [ret |-> n.ret, emptyFetch |-> n.emptyFetch, issued |-> n.issued]
        /\ everTrue' = (everTrue \/ n.ret = "true")
        /\ everFalse' = (everFalse \/ n.ret = "false")
        /\ UNCHANGED <<srvTotal, srvSize, closeCalled, lastScan, closeOk, lastClose>>
        /\ UNCHANGED notScroll

IterScan ==
  /\ lastScan' = [pre |-> (~everTrue \/ everFalse), res |-> ScanResult(it)]
  /\ UNCHANGED <<it, srvTotal, srvSize, srvDelivered, srvLive, clearIssued,
                 clearFailed, closeCalled, lastNext, everTrue, everFalse, closeOk,
                 lastClose>>
  /\ UNCHANGED notScroll

IterClose ==
  \E cout \in ClearOutcomes :
    LET c == CloseStep(it, cout) IN
    /\ it' = c.it
    /\ ServerClear(c.issued, cout)
    /\ closeCalled' = TRUE
    /\ closeOk' = (closeOk \/ ~c.issued \/ cout = "ok")
    /\ lastClose' = [afterAny |-> closeCalled, afterOk |-> closeOk,
                     issued |-> c.issued, changed |-> (c.it # it)]
    /\ UNCHANGED <<srvTotal, srvSize, srvDelivered, lastNext, lastScan,
                   everTrue, everFalse>>
    /\ UNCHANGED notScroll

\* ======================================================================
\* Client: connect, Ping, the health loop, attemptReconnect, Close
\* ======================================================================
Threads == {"main", "health", "closer"}
ReconnectBackoff == 2      \* Config.ReconnectBackoff, default=2.0

\* The configurations a Client is built with here (ConnectTimeout is positive).
ClientConfigs ==
  [HealthCheckEnabled : BOOLEAN,
   HealthCheckInterval : {0, 1},
   ReconnectEnabled : BOOLEAN,
   MaxReconnectAttempts : 0..MaxAttempts,
   ReconnectDelay : 1..MaxDelay,
   MaxReconnectDelay : 1..MaxDelay]

\* The last read of the Client's handle by a caller's operation: the
\* operation, whether it held the read lock, and the goroutine that held the
\* write lock at that moment.
NoRead == [op |-> "none", rlocked |-> FALSE, writer |-> "none"]

\* &Client{config: config, shutdownChan: make(chan struct{})}, about to connect.
InitClient ==
  /\ ccfg \in ClientConfigs
  /\ client = "nil"
  /\ isConnected = FALSE
  /\ reconnectCount = 0
  /\ mutexW = "none"
  /\ shutdownClosed = FALSE
  /\ ticker = "nil"
  /\ tickPending = FALSE
  /\ pc = [t \in Threads |-> CASE t = "main" -> "connect_lock"
                                [] t = "health" -> "off"
                                [] t = "closer" -> "idle"]
  /\ attempts = 0
  /\ delay = 0
  /\ probeOk = [t \in Threads |-> FALSE]
  /\ serverUp \in BOOLEAN
  /\ lastSleep = 0
  /\ lastPing = "none"
  /\ closeReturned = FALSE
  /\ onceDone = FALSE
  /\ closePanic = FALSE
  /\ lastRead = NoRead

\* The client part at rest, under the other parts' specifications.
IdleClient ==
  /\ ccfg = [HealthCheckEnabled |-> FALSE, HealthCheckInterval |-> 0,
             ReconnectEnabled |-> FALSE, MaxReconnectAttempts |-> 0,
             ReconnectDelay |-> 1, MaxReconnectDelay |-> 1]
  /\ client = "nil"
  /\ isConnected = FALSE
  /\ reconnectCount = 0
  /\ mutexW = "none"
  /\ shutdownClosed = FALSE
  /\ ticker = "nil"
  /\ tickPending = FALSE
  /\ pc = [t \in Threads |-> "off"]
  /\ attempts = 0
  /\ delay = 0
  /\ probeOk = [t \in Threads |-> FALSE]
  /\ serverUp = TRUE
  /\ lastSleep = 0
  /\ lastPing = "none"
  /\ closeReturned = FALSE
  /\ onceDone = FALSE
  /\ closePanic = FALSE
  /\ lastRead = NoRead

\* sync.RWMutex.Lock: blocks while any goroutine, the caller included, holds it.
CanLock(t) == mutexW = "none"
\* sync.RWMutex.RLock: blocks while a writer holds it.
CanRLock(t) == mutexW = "none"

\* Exponential backoff of attemptReconnect: multiply, then cap.
NextDelay(d) ==
  IF d * ReconnectBackoff > ccfg.MaxReconnectDelay
  THEN ccfg.MaxReconnectDelay
  ELSE d * ReconnectBackoff

\* A faulty connect, which C20 must tell apart from the real one: it marks the
\* Client connected before the probe has answered.
connectFlagFirst(up, handle, connected) ==
  [client |-> IF up THEN "es" ELSE handle, isConnected |-> TRUE]

\* connect(), what it leaves in c.client and c.isConnected: the new handle and
\* true when the probe answered, both as they were when it returned early.
connect(up, handle, connected) ==
  IF up THEN [client |-> "es", isConnected |-> TRUE]
  ELSE [client |-> handle, isConnected |-> connected]

\* connect(), first line: c.mutex.Lock().
ConnectLock(t) ==
  /\ pc[t] = "connect_lock"
  /\ CanLock(t)
  /\ mutexW' = t
  /\ pc' = [pc EXCEPT ![t] = "connect_probe"]
  /\ UNCHANGED <<notClient, lastRead, ccfg, client, isConnected, reconnectCount, shutdownClosed, ticker,
                 tickPending, attempts, delay, probeOk, serverUp, lastSleep,
                 lastPing, closeReturned, onceDone, closePanic>>

\* connect(), the rest: the cluster-info probe, the install of the handle, the
\* deferred Unlock, and the return into the caller: NewClient (which starts the
\* health check) for main, attemptReconnect's loop for the health goroutine.
ConnectProbe(t) ==
  /\ pc[t] = "connect_probe"
  /\ client' = connect(serverUp, client, isConnected).client
  /\ isConnected' = connect(serverUp, client, isConnected).isConnected
  /\ IF t = "main"
     THEN /\ mutexW' = "none"
          /\ IF serverUp
             THEN IF ccfg.HealthCheckEnabled /\ ccfg.HealthCheckInterval > 0
                  THEN /\ ticker' = "running"
                       /\ pc' = [pc EXCEPT !["main"] = "idle", !["health"] = "select"]
                  ELSE /\ ticker' = ticker
                       /\ pc' = [pc EXCEPT !["main"] = "idle"]
             ELSE /\ ticker' = ticker
                  /\ pc' = [pc EXCEPT !["main"] = "failed"]
          /\ UNCHANGED <<reconnectCount, delay>>
     ELSE /\ ticker' = ticker
          /\ IF serverUp
             THEN /\ reconnectCount' = reconnectCount + 1
                  /\ mutexW' = "none"
                  /\ pc' = [pc EXCEPT ![t] = "select"]
                  /\ delay' = delay
             ELSE /\ reconnectCount' = reconnectCount
                  /\ mutexW' = t
                  /\ pc' = [pc EXCEPT ![t] = "rc_loop"]
                  /\ delay' = NextDelay(delay)
  /\ UNCHANGED <<notClient, lastRead, ccfg, shutdownClosed, tickPending, attempts, probeOk, serverUp,
                 lastSleep, lastPing, closeReturned, onceDone, closePanic>>

\* time.Ticker: a tick is buffered when none is pending.
TickerFire ==
  /\ ticker = "running"
  /\ ~tickPending
  /\ tickPending' = TRUE
  /\ UNCHANGED <<notClient, lastRead, ccfg, client, isConnected, reconnectCount, mutexW, shutdownClosed,
                 ticker, pc, attempts, delay, probeOk, serverUp, lastSleep,
                 lastPing, closeReturned, onceDone, closePanic>>

\* The health goroutine's select, case <-c.healthTicker.C: performHealthCheck.
HealthSelectTick ==
  /\ pc["health"] = "select"
  /\ tickPending
  /\ tickPending' = FALSE
  /\ pc' = [pc EXCEPT !["health"] = "ping_read"]
  /\ UNCHANGED <<notClient, lastRead, ccfg, client, isConnected, reconnectCount, mutexW, shutdownClosed,
                 ticker, attempts, delay, probeOk, serverUp, lastSleep, lastPing,
                 closeReturned, onceDone, closePanic>>

\* The health goroutine's select, case <-c.shutdownChan: return.
HealthSelectShutdown ==
  /\ pc["health"] = "select"
  /\ shutdownClosed
  /\ pc' = [pc EXCEPT !["health"] = "exited"]
  /\ UNCHANGED <<notClient, lastRead, ccfg, client, isConnected, reconnectCount, mutexW, shutdownClosed,
                 ticker, tickPending, attempts, delay, probeOk, serverUp, lastSleep,
                 lastPing, closeReturned, onceDone, closePanic>>

\* Where Ping returns to: performHealthCheck goes on to attemptReconnect after a
\* failed ping when reconnect is enabled; a caller's Ping just returns.
AfterPing(t, ok) ==
  IF t = "health"
  THEN IF ~ok /\ ccfg.ReconnectEnabled THEN "rc_lock" ELSE "select"
  ELSE "idle"

\* Ping: snapshot the handle under the read lock.
PingRead(t) ==
  /\ pc[t] = "ping_read"
  /\ CanRLock(t)
  /\ IF client = "nil"
     THEN /\ pc' = [pc EXCEPT ![t] = AfterPing(t, FALSE)]
          /\ lastPing' = IF t = "main" THEN "err" ELSE lastPing
     ELSE /\ pc' = [pc EXCEPT ![t] = "ping_probe"]
          /\ lastPing' = lastPing
  /\ UNCHANGED <<notClient, lastRead, ccfg, client, isConnected, reconnectCount, mutexW, shutdownClosed,
                 ticker, tickPending, attempts, delay, probeOk, serverUp, lastSleep,
                 closeReturned, onceDone, closePanic>>

\* Ping: the cluster-info probe, outside any lock.
PingProbe(t) ==
  /\ pc[t] = "ping_probe"
  /\ probeOk' = [probeOk EXCEPT ![t] = serverUp]
  /\ pc' = [pc EXCEPT ![t] = "ping_set"]
  /\ UNCHANGED <<notClient, lastRead, ccfg, client, isConnected, reconnectCount, mutexW, shutdownClosed,
                 ticker, tickPending, attempts, delay, serverUp, lastSleep, lastPing,
                 closeReturned, onceDone, closePanic>>

\* A faulty Ping, which C19 must tell apart from the real one: it records a
\* probe that succeeded and leaves isConnected alone after one that failed.
PingSetOnSuccess(t) ==
  /\ pc[t] = "ping_set"
  /\ CanLock(t)
  /\ isConnected' = (isConnected \/ probeOk[t])
  /\ pc' = [pc EXCEPT ![t] = AfterPing(t, probeOk[t])]
  /\ lastPing' = IF t = "main" THEN (IF probeOk[t] THEN "ok" ELSE "err") ELSE lastPing
  /\ UNCHANGED <<notClient, lastRead, ccfg, client, reconnectCount, mutexW, shutdownClosed, ticker,
                 tickPending, attempts, delay, probeOk, serverUp, lastSleep,
                 closeReturned, onceDone, closePanic>>

\* Ping: record the probe's result in isConnected under the write lock, return.
PingSet(t) ==
  /\ pc[t] = "ping_set"
  /\ CanLock(t)
  /\ isConnected' = probeOk[t]
  /\ pc' = [pc EXCEPT ![t] = AfterPing(t, probeOk[t])]
  /\ lastPing' = IF t = "main" THEN (IF probeOk[t] THEN "ok" ELSE "err") ELSE lastPing
  /\ UNCHANGED <<notClient, lastRead, ccfg, client, reconnectCount, mutexW, shutdownClosed, ticker,
                 tickPending, attempts, delay, probeOk, serverUp, lastSleep,
                 closeReturned, onceDone, closePanic>>

\* attemptReconnect: take the write lock; return at once when already connected.
ReconnectEnter ==
  /\ pc["health"] = "rc_lock"
  /\ CanLock("health")
  /\ IF isConnected
     THEN /\ mutexW' = "none"
          /\ pc' = [pc EXCEPT !["health"] = "select"]
          /\ UNCHANGED <<attempts, delay>>
     ELSE /\ mutexW' = "health"
          /\ pc' = [pc EXCEPT !["health"] = "rc_loop"]
          /\ attempts' = 0
          /\ delay' = ccfg.ReconnectDelay
  /\ UNCHANGED <<notClient, lastRead, ccfg, client, isConnected, reconnectCount, shutdownClosed, ticker,
                 tickPending, probeOk, serverUp, lastSleep, lastPing, closeReturned,
                 onceDone, closePanic>>

\* attemptReconnect's loop body up to the call: count the attempt, sleep the
\* current delay, call connect() (still holding the write lock).
ReconnectAttempt ==
  /\ pc["health"] = "rc_loop"
  /\ attempts < ccfg.MaxReconnectAttempts
  /\ attempts' = attempts + 1
  /\ lastSleep' = delay
  /\ pc' = [pc EXCEPT !["health"] = "connect_lock"]
  /\ UNCHANGED <<notClient, lastRead, ccfg, client, isConnected, reconnectCount, mutexW, shutdownClosed,
                 ticker, tickPending, delay, probeOk, serverUp, lastPing,
                 closeReturned, onceDone, closePanic>>

\* attemptReconnect after the loop: log the failure, deferred Unlock, return.
ReconnectExhausted ==
  /\ pc["health"] = "rc_loop"
  /\ ~(attempts < ccfg.MaxReconnectAttempts)
  /\ mutexW' = "none"
  /\ pc' = [pc EXCEPT !["health"] = "select"]
  /\ UNCHANGED <<notClient, lastRead, ccfg, client, isConnected, reconnectCount, shutdownClosed, ticker,
                 tickPending, attempts, delay, probeOk, serverUp, lastSleep,
                 lastPing, closeReturned, onceDone, closePanic>>

\* A caller (the goroutine NewClient returned to) calls Ping.
UserPing ==
  /\ pc["main"] = "idle"
  /\ pc' = [pc EXCEPT !["main"] = "ping_read"]
  /\ UNCHANGED <<notClient, lastRead, ccfg, client, isConnected, reconnectCount, mutexW, shutdownClosed,
                 ticker, tickPending, attempts, delay, probeOk, serverUp, lastSleep,
                 lastPing, closeReturned, onceDone, closePanic>>

\* NewClient has returned the Client to its callers.
ClientReturned == pc["main"] \notin {"off", "connect_lock", "connect_probe", "failed"}

\* A faulty latch, which C18 must tell apart from the real one: it runs the
\* function on every call.
OnceRunsAlways(done) == TRUE

\* c.shutdownOnce.Do(f): f runs when the once has not been done yet.
OnceRuns(done) == ~done

\* Close, shutdownOnce.Do's fast path: a call that finds the once done returns
\* nil at once; another goes on to take the once's lock.
UserClose(t) ==
  /\ ClientReturned
  /\ pc[t] = "idle"
  /\ IF OnceRuns(onceDone)
     THEN /\ pc' = [pc EXCEPT ![t] = "once_slow"]
          /\ closeReturned' = closeReturned
     ELSE /\ pc' = pc
          /\ closeReturned' = TRUE
  /\ UNCHANGED <<notClient, lastRead, ccfg, client, isConnected, reconnectCount, mutexW,
                 shutdownClosed, ticker, tickPending, attempts, delay, probeOk,
                 serverUp, lastSleep, lastPing, onceDone, closePanic>>

\* Close, shutdownOnce.Do under the once's lock: when the once is still not
\* done, close the stop channel, stop the ticker and mark the once done; then
\* return nil. Closing a closed channel panics, which ends the process.
CloseOnce(t) ==
  /\ pc[t] = "once_slow"
  /\ IF OnceRuns(onceDone)
     THEN IF shutdownClosed
          THEN /\ closePanic' = TRUE
               /\ pc' = [u \in Threads |-> "off"]
               /\ UNCHANGED <<shutdownClosed, ticker, onceDone, closeReturned>>
          ELSE /\ shutdownClosed' = TRUE
               /\ ticker' = IF ticker = "running" THEN "stopped" ELSE ticker
               /\ onceDone' = TRUE
               /\ closeReturned' = TRUE
               /\ pc' = [pc EXCEPT ![t] = "idle"]
               /\ closePanic' = closePanic
     ELSE /\ closeReturned' = TRUE
          /\ pc' = [pc EXCEPT ![t] = "idle"]
          /\ UNCHANGED <<shutdownClosed, ticker, onceDone, closePanic>>
  /\ UNCHANGED <<notClient, lastRead, ccfg, client, isConnected, reconnectCount, mutexW, tickPending,
                 attempts, delay, probeOk, serverUp, lastSleep, lastPing>>

\* The server goes down or comes back.
ServerFlip ==
  /\ serverUp' = ~serverUp
  /\ UNCHANGED <<notClient, lastRead, ccfg, client, isConnected, reconnectCount, mutexW, shutdownClosed,
                 ticker, tickPending, pc, attempts, delay, probeOk, lastSleep,
                 lastPing, closeReturned, onceDone, closePanic>>

\* The steps of the health goroutine and of the ticker that drives it.
HealthNext ==
  \/ TickerFire
  \/ HealthSelectTick
  \/ HealthSelectShutdown
  \/ PingRead("health")
  \/ PingProbe("health")
  \/ PingSet("health")
  \/ ReconnectEnter
  \/ ReconnectAttempt
  \/ ReconnectExhausted
  \/ ConnectLock("health")
  \/ ConnectProbe("health")

MainNext ==
  \/ ConnectLock("main")
  \/ ConnectProbe("main")
  \/ UserPing
  \/ PingRead("main")
  \/ PingProbe("main")
  \/ PingSet("main")
  \/ UserClose("main")
  \/ CloseOnce("main")

\* The operations of a caller that read the Client's handle: GetClient, and
\* the request-issuing IndexWithID and BulkResource.Execute.
HandleReaders == {"GetClient", "IndexWithID", "Execute"}

\* Whether the operation takes the read lock around its read of c.client:
\* GetClient does; the request-issuing ones pass d.client.client (or
\* br.client.client) to req.Do with no lock taken.
TakesRLock(op) == op = "GetClient"

\* A caller's operation reads the handle: after RLock when it takes the lock,
\* at once when it does not.
UserRead(t) ==
  /\ ClientReturned
  /\ pc[t] = "idle"
  /\ \E op \in HandleReaders :
       /\ TakesRLock(op) => CanRLock(t)
       /\ lastRead' = [op |-> op, rlocked |-> TakesRLock(op), writer |-> mutexW]
  /\ UNCHANGED <<notClient, ccfg, client, isConnected, reconnectCount, mutexW,
                 shutdownClosed, ticker, tickPending, pc, attempts, delay, probeOk,
                 serverUp, lastSleep, lastPing, closeReturned, onceDone, closePanic>>

\* The steps of a second goroutine that holds the Client and closes it.
CloserNext ==
  \/ UserClose("closer")
  \/ CloseOnce("closer")

\* The steps of a second goroutine that holds the Client and uses it.
ReaderNext == UserRead("closer")

\* ======================================================================
\* ShutdownManager: Register, RegisterResources, SetupSignalHandler, Wait,
\* shutdown and its drain worker
\* ======================================================================
Nil == "nil"
ClientIds == {Nil, "c1", "c2"}   \* *Client values passed to Register
ResourceIds == {Nil, "r1"}       \* Shutdownable values passed to RegisterResources

\* ShutdownConfig; durations in clock units, the total timeout positive.
ShutdownConfigs ==
  [Timeout : 1..MaxTimeout,
   GracePeriod : 0..MaxGrace,
   ForceKillTimeout : 0..MaxForceKill]

\* The variadic arguments of one Register or RegisterResources call.
ArgSeqs(ids) ==
  {<<a>> : a \in ids} \cup {<<a, b>> : a \in ids, b \in ids}

\* NewShutdownManager(config).
InitShutdown ==
  /\ smcfg \in ShutdownConfigs
  /\ clients = <<>>
  /\ resources = <<>>
  /\ notified = FALSE
  /\ sigBuf = 0
  /\ signalsSent = 0
  /\ ctxCancelled = FALSE
  /\ now = 0
  /\ aborted = FALSE
  /\ drains = 0
  /\ wpc = "idle"
  /\ kpc = "off"
  /\ snapC = <<>>
  /\ snapR = <<>>
  /\ kidx = 0
  /\ deadline = 0
  /\ graceWake = 0
  /\ forceWake = 0
  /\ doneAt = -1
  /\ closedAt = -1
  /\ endAt = -1
  /\ closeLog = <<>>

\* The shutdown part at rest, under the other parts' specifications.
IdleShutdown ==
  /\ smcfg = [Timeout |-> 1, GracePeriod |-> 0, ForceKillTimeout |-> 0]
  /\ clients = <<>>
  /\ resources = <<>>
  /\ notified = FALSE
  /\ sigBuf = 0
  /\ signalsSent = 0
  /\ ctxCancelled = FALSE
  /\ now = 0
  /\ aborted = FALSE
  /\ drains = 0
  /\ wpc = "idle"
  /\ kpc = "off"
  /\ snapC = <<>>
  /\ snapR = <<>>
  /\ kidx = 0
  /\ deadline = 0
  /\ graceWake = 0
  /\ forceWake = 0
  /\ doneAt = -1
  /\ closedAt = -1
  /\ endAt = -1
  /\ closeLog = <<>>

\* Register(clients...): append under the mutex.
Register(cs) ==
  /\ ~aborted
  /\ Len(clients) + Len(resources) + Len(cs) <= MaxReg
  /\ clients' = clients \o cs
  /\ UNCHANGED <<notShutdown, smcfg, resources, notified, sigBuf, signalsSent,
                 ctxCancelled, now, aborted, drains, wpc, kpc, snapC, snapR, kidx,
                 deadline, graceWake, forceWake, doneAt, endAt, closeLog,
                 closedAt>>

\* RegisterResources(resources...): append under the mutex.
RegisterResources(rs) ==
  /\ ~aborted
  /\ Len(clients) + Len(resources) + Len(rs) <= MaxReg
  /\ resources' = resources \o rs
  /\ UNCHANGED <<notShutdown, smcfg, clients, notified, sigBuf, signalsSent,
                 ctxCancelled, now, aborted, drains, wpc, kpc, snapC, snapR, kidx,
                 deadline, graceWake, forceWake, doneAt, endAt, closeLog,
                 closedAt>>

\* SetupSignalHandler: signal.Notify(sm.shutdownChan, SIGINT, SIGTERM).
SetupSignalHandler ==
  /\ ~aborted
  /\ ~notified
  /\ notified' = TRUE
  /\ UNCHANGED <<notShutdown, smcfg, clients, resources, sigBuf, signalsSent,
                 ctxCancelled, now, aborted, drains, wpc, kpc, snapC, snapR, kidx,
                 deadline, graceWake, forceWake, doneAt, endAt, closeLog,
                 closedAt>>

\* A SIGINT or SIGTERM arrives: the runtime sends it to shutdownChan (buffer 1)
\* without blocking, so it is dropped when one is already buffered.
Signal ==
  /\ ~aborted
  /\ notified
  /\ signalsSent < MaxSignals
  /\ signalsSent' = signalsSent + 1
  /\ sigBuf' = 1
  /\ UNCHANGED <<notShutdown, smcfg, clients, resources, notified, ctxCancelled,
                 now, aborted, drains, wpc, kpc, snapC, snapR, kidx, deadline, graceWake, forceWake, doneAt, endAt, closeLog,
                 closedAt>>

\* A faulty ShutdownDeadline, which C4 must tell apart from the real one: a
\* context that expires one unit late.
LateDeadline(start) == start + smcfg.Timeout + 1

\* context.WithTimeout(context.Background(), sm.config.Timeout), made at start.
ShutdownDeadline(start) == start + smcfg.Timeout

\* When the force-kill sleep that starts at t ends (no sleep when it is not > 0).
ForceWake(t) == IF smcfg.ForceKillTimeout > 0 THEN t + smcfg.ForceKillTimeout ELSE t

\* Wait, called when no Wait is running (a first call, or one more call after a
\* Wait that returned): the receive from shutdownChan completes, then shutdown()
\* up to its select: note the start, cancel the context, make the timeout
\* context and the done channel, start the worker.
WaitReceive ==
  /\ ~aborted
  /\ wpc \in {"idle", "returned"}
  /\ sigBuf = 1
  /\ sigBuf' = 0
  /\ ctxCancelled' = TRUE
  /\ now' = 0
  /\ deadline' = ShutdownDeadline(0)
  /\ drains' = drains + 1
  /\ kpc' = "snapshot"
  /\ wpc' = "select"
  /\ doneAt' = -1
  /\ endAt' = -1
  /\ closedAt' = -1
  /\ closeLog' = <<>>
  /\ UNCHANGED <<notShutdown, smcfg, clients, resources, notified, signalsSent,
                 aborted, snapC, snapR, kidx, graceWake, forceWake>>

\* The worker copies the two lists under the mutex.
WorkerSnapshot ==
  /\ ~aborted
  /\ kpc = "snapshot"
  /\ snapC' = clients
  /\ snapR' = resources
  /\ kidx' = 0
  /\ kpc' = "closing"
  /\ UNCHANGED <<notShutdown, smcfg, clients, resources, notified, sigBuf,
                 signalsSent, ctxCancelled, now, aborted, drains, wpc, deadline, graceWake, forceWake, doneAt, endAt, closeLog,
                 closedAt>>

Items(kind, s) == [i \in 1..Len(s) |-> [kind |-> kind, pos |-> i, id |-> s[i]]]
NonNil(items) == SelectSeq(items, LAMBDA x : x.id # Nil)

\* A faulty DrainOrder, which C9 must tell apart from the real one: the two
\* loops of the worker swapped.
ResourcesFirst(cs, rs) ==
  NonNil(Items("resource", rs)) \o NonNil(Items("client", cs))

\* The Close calls the worker's two loops make, in order: every non-nil client
\* of the snapshot, then every non-nil resource.
DrainOrder(cs, rs) ==
  NonNil(Items("client", cs)) \o NonNil(Items("resource", rs))

\* The worker invokes the next Close. Client.Close returns at once; a
\* Shutdownable's Close is the caller's code and may take any time.
WorkerClose ==
  LET order == DrainOrder(snapC, snapR) IN
  /\ ~aborted
  /\ kpc = "closing"
  /\ kidx < Len(order)
  /\ closeLog' = Append(closeLog, order[kidx + 1])
  /\ kidx' = kidx + 1
  /\ kpc' = IF order[kidx + 1].kind = "resource" THEN "inclose" ELSE "closing"
  /\ UNCHANGED <<notShutdown, smcfg, clients, resources, notified, sigBuf,
                 signalsSent, ctxCancelled, now, aborted, drains, wpc, snapC, snapR,
                 deadline, graceWake, forceWake, doneAt, endAt,
                 closedAt>>

\* A Shutdownable's Close returns.
WorkerCloseReturn ==
  /\ ~aborted
  /\ kpc = "inclose"
  /\ kpc' = "closing"
  /\ UNCHANGED <<notShutdown, smcfg, clients, resources, notified, sigBuf,
                 signalsSent, ctxCancelled, now, aborted, drains, wpc, snapC, snapR,
                 kidx, deadline, graceWake, forceWake, doneAt, endAt,
                 closeLog,
                 closedAt>>

\* After the loops: wait the grace period when it is > 0, else close(done).
WorkerStartGrace ==
  /\ ~aborted
  /\ kpc = "closing"
  /\ kidx = Len(DrainOrder(snapC, snapR))
  /\ closedAt' = now
  /\ IF smcfg.GracePeriod > 0
     THEN /\ kpc' = "grace"
          /\ graceWake' = now + smcfg.GracePeriod
          /\ doneAt' = doneAt
     ELSE /\ kpc' = "done"
          /\ graceWake' = graceWake
          /\ doneAt' = now
  /\ UNCHANGED <<notShutdown, smcfg, clients, resources, notified, sigBuf,
                 signalsSent, ctxCancelled, now, aborted, drains, wpc, snapC, snapR,
                 kidx, deadline, forceWake, endAt, closeLog>>

\* The grace select: time.After(GracePeriod) or shutdownCtx.Done(); then the
\* deferred close(done).
WorkerGraceEnd ==
  /\ ~aborted
  /\ kpc = "grace"
  /\ now >= graceWake \/ now >= deadline
  /\ kpc' = "done"
  /\ doneAt' = now
  /\ UNCHANGED <<notShutdown, smcfg, clients, resources, notified, sigBuf,
                 signalsSent, ctxCancelled, now, aborted, drains, wpc, snapC, snapR,
                 kidx, deadline, graceWake, forceWake, endAt, closeLog,
                 closedAt>>

\* shutdown()'s select, case <-done: log and return; Wait returns.
WaitReturn ==
  /\ ~aborted
  /\ wpc = "select"
  /\ kpc = "done"
  /\ wpc' = "returned"
  /\ endAt' = now
  /\ UNCHANGED <<notShutdown, smcfg, clients, resources, notified, sigBuf,
                 signalsSent, ctxCancelled, now, aborted, drains, kpc, snapC, snapR,
                 kidx, deadline, graceWake, forceWake, doneAt, closeLog,
                 closedAt>>

\* After the force-kill sleep: os.Exit(1).
ForceExit ==
  /\ ~aborted
  /\ wpc = "force"
  /\ now >= forceWake
  /\ aborted' = TRUE
  /\ wpc' = "exited"
  /\ endAt' = now
  /\ UNCHANGED <<notShutdown, smcfg, clients, resources, notified, sigBuf,
                 signalsSent, ctxCancelled, now, drains, kpc, snapC, snapR, kidx,
                 deadline, graceWake, forceWake, doneAt, closeLog,
                 closedAt>>

\* A goroutine that is runnable now: the clock does not advance past it. Only
\* a Shutdownable's Close and the timers take time.
Urgent ==
  \/ kpc \in {"snapshot", "closing"}
  \/ kpc = "grace" /\ (now >= graceWake \/ now >= deadline)
  \/ wpc = "select" /\ kpc = "done"
  \/ wpc = "force" /\ now >= forceWake

\* One unit of time passes while a shutdown is running. A timeout context whose
\* deadline is reached wakes the shutdown() parked in its select, case
\* <-shutdownCtx.Done(): it starts the force-kill sleep.
Tick ==
  /\ ~aborted
  /\ wpc \in {"select", "force"}
  /\ ~Urgent
  /\ now' = now + 1
  /\ IF wpc = "select" /\ now + 1 >= deadline
     THEN /\ wpc' = "force"
          /\ forceWake' = ForceWake(now + 1)
     ELSE UNCHANGED <<wpc, forceWake>>
  /\ UNCHANGED <<notShutdown, smcfg, clients, resources, notified, sigBuf,
                 signalsSent, ctxCancelled, aborted, drains, kpc, snapC, snapR, kidx,
                 deadline, graceWake, doneAt, endAt, closeLog,
                 closedAt>>

RegisterNext ==
  \/ \E cs \in ArgSeqs(ClientIds) : Register(cs)
  \/ \E rs \in ArgSeqs(ResourceIds) : RegisterResources(rs)

WaitNext == WaitReceive \/ WaitReturn \/ ForceExit

WorkerNext ==
  \/ WorkerSnapshot
  \/ WorkerClose
  \/ WorkerCloseReturn
  \/ WorkerStartGrace
  \/ WorkerGraceEnd

NextShutdown ==
  RegisterNext \/ SetupSignalHandler \/ Signal \/ WaitNext \/ WorkerNext \/ Tick

\* ======================================================================
\* NewClient: the functional options, environment loading, validateConfig
\* ======================================================================
\* Host strings as sequences of characters: one without a port, one with.
BareHost == <<"h">>
PortedHost == <<"h", ":", "9">>
HostLists == {<<>>, <<BareHost>>, <<PortedHost>>, <<PortedHost, BareHost>>}
CloudIDs == {"", "cid"}

\* strings.Contains(s, ch) for a one-character ch.
Contains(s, ch) == \E i \in 1..Len(s) : s[i] = ch

\* &Config{}: every field at its zero value.
EmptyConfig ==
  [Hosts |-> <<>>, CloudID |-> "", TLSEnabled |-> FALSE, ConnectTimeout |-> 0,
   RequestTimeout |-> 0, MaxRetries |-> 0, ReconnectDelay |-> 0,
   IDMode |-> "", LogLevel |-> "", LogFormat |-> ""]

\* What env.Bind gives for an empty environment: the struct tags' defaults
\* (durations in seconds).
DefaultConfig ==
  [Hosts |-> <<PortedHost>>, CloudID |-> "", TLSEnabled |-> FALSE,
   ConnectTimeout |-> 10, RequestTimeout |-> 30, MaxRetries |-> 3,
   ReconnectDelay |-> 5, IDMode |-> "elastic", LogLevel |-> "info",
   LogFormat |-> "json"]

\* Configurations a caller or the environment can describe: the defaults with
\* other hosts and cloud id, or with one other field set to a value validation
\* rejects or replaces.
VariedConnection ==
  {[DefaultConfig EXCEPT !.Hosts = hs, !.CloudID = cid] :
     hs \in HostLists, cid \in CloudIDs}
VariedField ==
  {[DefaultConfig EXCEPT !.ConnectTimeout = 0],
   [DefaultConfig EXCEPT !.RequestTimeout = 0],
   [DefaultConfig EXCEPT !.ReconnectDelay = 0],
   [DefaultConfig EXCEPT !.IDMode = "uuid"],
   [DefaultConfig EXCEPT !.LogLevel = "verbose"],
   [DefaultConfig EXCEPT !.LogFormat = "xml"]}

\* What env.Bind produces from the process environment.
EnvConfigs ==
  VariedConnection \cup VariedField \cup {[DefaultConfig EXCEPT !.MaxRetries = -1]}

\* The *Config values passed to WithConfig (nil apart).
UserConfigs == VariedConnection \cup VariedField \cup {EmptyConfig}

isValidLogLevel(level) == level \in {"debug", "info", "warn", "error"}
isValidLogFormat(format) == format \in {"json", "text"}
isValidIDMode(mode) == mode \in {"elastic", "ulid", "custom"}

\* A faulty validateConfig, which C10 must tell apart from the real one: the
\* check that every host has a port is left out.
validateConfigNoPortCheck(config) ==
  IF config.CloudID = "" /\ Len(config.Hosts) = 0 THEN [err |-> TRUE, config |-> config]
  ELSE IF config.ConnectTimeout <= 0 THEN [err |-> TRUE, config |-> config]
  ELSE IF config.RequestTimeout <= 0 THEN [err |-> TRUE, config |-> config]
  ELSE IF config.MaxRetries < 0 THEN [err |-> TRUE, config |-> config]
  ELSE LET c == IF config.ReconnectDelay <= 0
                THEN [config EXCEPT !.ReconnectDelay = 5] ELSE config
       IN  IF ~isValidLogLevel(c.LogLevel) THEN [err |-> TRUE, config |-> c]
           ELSE IF ~isValidLogFormat(c.LogFormat) THEN [err |-> TRUE, config |-> c]
           ELSE IF ~isValidIDMode(c.IDMode) THEN [err |-> TRUE, config |-> c]
           ELSE [err |-> FALSE, config |-> c]

\* validateConfig: [err, config]; config is the struct as the call leaves it
\* (a non-positive reconnect delay is replaced by 5s on the way).
validateConfig(config) ==
  IF config.CloudID = "" /\ Len(config.Hosts) = 0 THEN [err |-> TRUE, config |-> config]
  ELSE IF config.CloudID = ""
          /\ \E i \in 1..Len(config.Hosts) : ~Contains(config.Hosts[i], ":")
       THEN [err |-> TRUE, config |-> config]
  ELSE IF config.ConnectTimeout <= 0 THEN [err |-> TRUE, config |-> config]
  ELSE IF config.RequestTimeout <= 0 THEN [err |-> TRUE, config |-> config]
  ELSE IF config.MaxRetries < 0 THEN [err |-> TRUE, config |-> config]
  ELSE LET c == IF config.ReconnectDelay <= 0
                THEN [config EXCEPT !.ReconnectDelay = 5] ELSE config
       IN  IF ~isValidLogLevel(c.LogLevel) THEN [err |-> TRUE, config |-> c]
           ELSE IF ~isValidLogFormat(c.LogFormat) THEN [err |-> TRUE, config |-> c]
           ELSE IF ~isValidIDMode(c.IDMode) THEN [err |-> TRUE, config |-> c]
           ELSE [err |-> FALSE, config |-> c]

\* loadConfigWithPrefix: bind the environment (env is what Bind produces), then
\* validate: [err, config].
loadConfigWithPrefix(env) == validateConfig(env)

\* opts.config when no option has set it.
NilConfig == [nil |-> TRUE]

\* What every option but WithConfig and FromEnv starts with: load the
\* environment when opts.config is nil, &Config{} when that fails.
EnsureConfig(o, env) ==
  IF o # NilConfig THEN o
  ELSE LET l == loadConfigWithPrefix(env) IN
       IF l.err THEN EmptyConfig ELSE l.config

\* The options: WithConfig(c), WithHosts(hosts...), WithCloudID(id),
\* WithTLS(enabled), FromEnv().
Options ==
  [kind : {"WithConfig"}, val : UserConfigs \cup {NilConfig}]
    \cup [kind : {"WithHosts"}, val : HostLists]
    \cup [kind : {"WithCloudID"}, val : CloudIDs]
    \cup [kind : {"WithTLS"}, val : {TRUE}]
    \cup [kind : {"FromEnv"}, val : {""}]

\* option(opts): opts.config after the option ran on opts.config = o.
ApplyOption(opt, o, env) ==
  CASE opt.kind = "WithConfig" -> opt.val
    [] opt.kind = "WithHosts" ->
         LET c == EnsureConfig(o, env) IN
         IF Len(opt.val) > 0 THEN [c EXCEPT !.Hosts = opt.val] ELSE c
    [] opt.kind = "WithCloudID" -> [EnsureConfig(o, env) EXCEPT !.CloudID = opt.val]
    [] opt.kind = "WithTLS" -> [EnsureConfig(o, env) EXCEPT !.TLSEnabled = opt.val]
    [] opt.kind = "FromEnv" ->
         LET l == loadConfigWithPrefix(env) IN
         IF l.err THEN EmptyConfig ELSE l.config

\* for _, option := range options { option(opts) }
RECURSIVE ApplyOptions(_, _, _)
ApplyOptions(options, o, env) ==
  IF options = <<>> THEN o
  ELSE ApplyOptions(Tail(options), ApplyOption(Head(options), o, env), env)

\* connect() on a fresh Client: the probe runs under a context that times out
\* after ConnectTimeout, so it is already expired when that is not positive.
ConnectOk(config, up) == up /\ config.ConnectTimeout > 0

\* NewClient(options...): [status, config]; status "ok" when a Client is
\* returned, and then config is the Config it holds.
NewClient(options, env, up) ==
  LET first == ApplyOptions(options, NilConfig, env) IN
  IF first # NilConfig
  THEN IF ConnectOk(first, up) THEN [status |-> "ok", config |-> first]
       ELSE [status |-> "err", config |-> NilConfig]
  ELSE LET l == loadConfigWithPrefix(env) IN
       IF l.err THEN [status |-> "err", config |-> NilConfig]
       ELSE LET again == ApplyOptions(options, l.config, env) IN
            IF again = NilConfig THEN [status |-> "err", config |-> NilConfig]
            ELSE IF ConnectOk(again, up) THEN [status |-> "ok", config |-> again]
            ELSE [status |-> "err", config |-> NilConfig]

OptionLists ==
  UNION {[1..n -> Options] : n \in 0..MaxOptions}

\* A process with its environment and a server, before it calls NewClient.
InitConfig ==
  /\ ncEnv \in EnvConfigs
  /\ ncUp \in BOOLEAN
  /\ ncOptions = <<>>
  /\ ncResult = [status |-> "none", config |-> NilConfig]

\* The config part at rest, under the other parts' specifications.
IdleConfig ==
  /\ ncEnv = DefaultConfig
  /\ ncUp = TRUE
  /\ ncOptions = <<>>
  /\ ncResult = [status |-> "none", config |-> NilConfig]

\* The process calls NewClient with some options.
CallNewClient ==
  /\ ncResult.status = "none"
  /\ \E options \in OptionLists :
       /\ ncOptions' = options
       /\ ncResult' = NewClient(options, ncEnv, ncUp)
  /\ UNCHANGED <<notConfig, ncEnv, ncUp>>

NextConfig == CallNewClient

\* ======================================================================
\* Documents: Get, Delete, the single-document writes, the Document
\* Enhancer, the BulkIndexer and BulkResource.Execute
\* ======================================================================
\* Strings whose length or content matters are sequences of characters.
EmptyId == <<>>                    \* the document id ""
UserId == <<"u">>                  \* an id the caller chose
UlidLen == 26                      \* length of a ULID string
IdModes == {"elastic", "ulid", "custom"}

\* generateULID(): the 26-character string ulid.New() returns.
generateULID == [i \in 1..UlidLen |-> "0"]

\* The fields a caller's document may have, each with the caller's value
\* (instants are numbers; the caller's are 0, earlier than any time.Now()).
Fields == {"name", "_id", "created_at", "updated_at"}
CallerValue(f) ==
  CASE f = "name" -> <<"n">>
    [] f = "_id" -> UserId
    [] f = "created_at" -> 0
    [] f = "updated_at" -> 0

\* The map[string]any documents of callers.
MapDocs == {[f \in S |-> CallerValue(f)] : S \in SUBSET Fields}

\* A nil document, where a document is of type any.
NilDoc == [isNil |-> TRUE, m |-> <<>>]
MapDoc(m) == [isNil |-> FALSE, m |-> m]

\* docMap[k] = v
Put(m, k, v) == [f \in (DOMAIN m) \cup {k} |-> IF f = k THEN v ELSE m[f]]

\* A faulty enhancer, which C14 must tell apart from the real one: it keeps
\* the caller's updated_at.
enhanceDocumentKeepsUpdated(m, mode, t) ==
  LET withId == IF mode # "custom" /\ "_id" \notin DOMAIN m /\ mode = "ulid"
                THEN Put(m, "_id", generateULID) ELSE m
      withCreated == IF "created_at" \notin DOMAIN withId
                     THEN Put(withId, "created_at", t) ELSE withId
  IN  IF "updated_at" \notin DOMAIN withCreated
      THEN Put(withCreated, "updated_at", t) ELSE withCreated

\* enhanceDocument on a map[string]any: copy it; add a ULID as _id when there
\* is none and the id mode is ulid; add created_at when there is none; set
\* updated_at. t is what time.Now() returns.
enhanceDocument(m, mode, t) ==
  LET withId == IF mode # "custom" /\ "_id" \notin DOMAIN m /\ mode = "ulid"
                THEN Put(m, "_id", generateULID) ELSE m
      withCreated == IF "created_at" \notin DOMAIN withId
                     THEN Put(withId, "created_at", t) ELSE withId
  IN  Put(withCreated, "updated_at", t)

\* json.Marshal of a map: its members as <<key, value>> in the order of the
\* keys (values are kept as they are).
KeyOrder == <<"_id", "_index", "create", "created_at", "delete", "doc",
              "doc_as_upsert", "index", "name", "script", "source", "update",
              "updated_at">>
Marshal(m) ==
  LET keys == SelectSeq(KeyOrder, LAMBDA k : k \in DOMAIN m)
  IN  [i \in 1..Len(keys) |-> <<keys[i], m[keys[i]]>>]

\* Reading a marshalled object.
HasKey(obj, k) == \E i \in 1..Len(obj) : obj[i][1] = k
Member(obj, k) == obj[CHOOSE i \in 1..Len(obj) : obj[i][1] = k][2]

\* ---- errors and their classifier ----
\* An error message is a sequence of words; nil is the empty sequence.
NoError == <<>>
NotFoundStatus == 404
StatusCodes == {200, NotFoundStatus, 409, 500}
\* res.Status(): the code in digits and the reason phrase.
Status(code) ==
  CASE code = 200 -> <<"200", "OK">>
    [] code = NotFoundStatus -> <<"404", "Not", "Found">>
    [] code = 409 -> <<"409", "Conflict">>
    [] code = 500 -> <<"500", "Internal", "Server", "Error">>
\* res.IsError(): the status is above 299.
IsError(code) == code > 299

\* What the server can answer to a get or delete request: no answer at all
\* (a transport error), or a status with the found member of the body.
Responses ==
  [transport : {TRUE}, status : {0}, found : {FALSE}]
    \cup [transport : {FALSE}, status : {200}, found : BOOLEAN]
    \cup [transport : {FALSE}, status : StatusCodes \ {200}, found : {FALSE}]

\* IsNotFoundError: the error is not nil and its message contains "404".
IsNotFoundError(err) ==
  /\ err # NoError
  /\ \E i \in 1..Len(err) : err[i] = "404"

\* Document.Get: the error it returns for a response.
GetError(res) ==
  IF res.transport
  THEN <<"failed", "to", "execute", "get", "request:", "EOF">>
  ELSE IF IsError(res.status)
       THEN IF res.status = NotFoundStatus
            THEN <<"document", "not", "found">>
            ELSE <<"get", "request", "failed:">> \o Status(res.status) \o <<"-", "body">>
       ELSE IF ~res.found THEN <<"document", "not", "found">>
       ELSE NoError

\* Document.Delete: the error it returns for a response.
DeleteError(res) ==
  IF res.transport
  THEN <<"failed", "to", "execute", "delete", "request:", "EOF">>
  ELSE IF IsError(res.status)
       THEN IF res.status = NotFoundStatus
            THEN <<"document", "not", "found">>
            ELSE <<"delete", "request", "failed:">> \o Status(res.status) \o <<"-", "body">>
       ELSE NoError

\* ---- request bodies of the single-document writes ----
\* IndexWithID and CreateWithID: the enhanced document, marshalled.
IndexBody(m, mode, t) == Marshal(enhanceDocument(m, mode, t))

\* Update: {"doc": doc}, with updated_at put into doc when it has none.
UpdateBody(m, t) ==
  LET doc == IF "updated_at" \notin DOMAIN m THEN Put(m, "updated_at", t) ELSE m
  IN  Marshal([k \in {"doc"} |-> Marshal(doc)])

\* The caller's map after IndexWithID or CreateWithID: enhanceDocument works
\* on a copy, the map is as it was.
IndexLeaves(m) == m

\* The caller's map after Update: {"doc": doc} holds the caller's map itself,
\* so the updated_at put into it when it has none is put into the caller's map.
UpdateLeaves(m, t) ==
  IF "updated_at" \notin DOMAIN m THEN Put(m, "updated_at", t) ELSE m

\* ---- bulk ----
\* BulkOperation: Action, ID, Document, Script, UpsertDoc (nil when unset).
NoScript == <<>>
AScript == [k \in {"source"} |-> <<"s">>]
BulkDocs == {NilDoc, MapDoc([f \in {"name"} |-> CallerValue(f)]),
             MapDoc([f \in {"name", "created_at"} |-> CallerValue(f)])}
BulkOp(action, id, document, script) ==
  [Action |-> action, ID |-> id, Document |-> document, Script |-> script,
   UpsertDoc |-> NilDoc]

\* Execute, the action line of one operation.
ActionLine(op) ==
  LET meta == IF op.ID # EmptyId
              THEN [k \in {"_index", "_id"} |-> IF k = "_id" THEN op.ID ELSE <<"i">>]
              ELSE [k \in {"_index"} |-> <<"i">>]
  IN  Marshal([k \in {op.Action} |-> Marshal(meta)])

\* Execute, the body of an update operation: doc and doc_as_upsert from
\* UpsertDoc, script from Script, whichever are set.
UpdateLine(op) ==
  LET withDoc == IF ~op.UpsertDoc.isNil
                 THEN [k \in {"doc", "doc_as_upsert"} |->
                         IF k = "doc" THEN Marshal(op.UpsertDoc.m) ELSE TRUE]
                 ELSE <<>>
      withScript == IF op.Script # NoScript
                    THEN Put(withDoc, "script", Marshal(op.Script)) ELSE withDoc
  IN  Marshal(withScript)

\* Execute, the lines written after the action line of one operation.
BodyLines(op, mode, t) ==
  IF op.Action \in {"index", "create"}
  THEN IF ~op.Document.isNil
       THEN <<Marshal(enhanceDocument(op.Document.m, mode, t))>> ELSE <<>>
  ELSE IF op.Action = "update" THEN <<UpdateLine(op)>>
  ELSE <<>>

\* Execute, the request body: for each operation in turn its action line and
\* its body lines, each ended by a newline.
RECURSIVE BulkBody(_, _, _)
BulkBody(ops, mode, t) ==
  IF ops = <<>> THEN <<>>
  ELSE <<ActionLine(Head(ops))>> \o BodyLines(Head(ops), mode, t)
         \o BulkBody(Tail(ops), mode, t)

\* The call the part has made: its name, the document and response it was
\* given, the request body it sent as a sequence of lines, the error or the
\* map it returned, and the caller's map as the call left it.
NoCall ==
  [op |-> "none", doc |-> NilDoc, res |-> [transport |-> FALSE, status |-> 0, found |-> FALSE],
   sent |-> FALSE, lines |-> <<>>, err |-> NoError, out |-> <<>>, after |-> <<>>]

\* A Client with its id mode, a clock reading, and an empty BulkIndexer. The
\* program makes one call: a single-document call or an enhanceDocument right
\* away, or a Do after the operations it has added to the BulkIndexer.
InitDocs ==
  /\ dMode \in IdModes
  /\ dNow \in 1..MaxNow
  /\ dOps = <<>>
  /\ dCall = NoCall

\* The documents part at rest, under the other parts' specifications.
IdleDocs ==
  /\ dMode = "elastic"
  /\ dNow = 1
  /\ dOps = <<>>
  /\ dCall = NoCall

\* Document.Get against a server that answers res.
DocGet ==
  /\ dCall.op = "none"
  /\ dOps = <<>>
  /\ \E res \in Responses :
       dCall' = [NoCall EXCEPT !.op = "Get", !.res = res, !.err = GetError(res)]
  /\ UNCHANGED <<notDocs, dMode, dNow, dOps>>

\* Document.Delete against a server that answers res.
DocDelete ==
  /\ dCall.op = "none"
  /\ dOps = <<>>
  /\ \E res \in Responses :
       dCall' = [NoCall EXCEPT !.op = "Delete", !.res = res, !.err = DeleteError(res)]
  /\ UNCHANGED <<notDocs, dMode, dNow, dOps>>

\* Document.Index / IndexWithID of a map document.
DocIndex ==
  /\ dCall.op = "none"
  /\ dOps = <<>>
  /\ \E m \in MapDocs :
       dCall' = [NoCall EXCEPT !.op = "Index", !.doc = MapDoc(m), !.sent = TRUE,
                               !.lines = <<IndexBody(m, dMode, dNow)>>,
                               !.after = IndexLeaves(m)]
  /\ UNCHANGED <<notDocs, dMode, dNow, dOps>>

\* Document.CreateWithID of a map document.
DocCreateWithID ==
  /\ dCall.op = "none"
  /\ dOps = <<>>
  /\ \E m \in MapDocs :
       dCall' = [NoCall EXCEPT !.op = "CreateWithID", !.doc = MapDoc(m), !.sent = TRUE,
                               !.lines = <<IndexBody(m, dMode, dNow)>>,
                               !.after = IndexLeaves(m)]
  /\ UNCHANGED <<notDocs, dMode, dNow, dOps>>

\* Document.Update with a map of changes.
DocUpdate ==
  /\ dCall.op = "none"
  /\ dOps = <<>>
  /\ \E m \in MapDocs :
       dCall' = [NoCall EXCEPT !.op = "Update", !.doc = MapDoc(m), !.sent = TRUE,
                               !.lines = <<UpdateBody(m, dNow)>>,
                               !.after = UpdateLeaves(m, dNow)]
  /\ UNCHANGED <<notDocs, dMode, dNow, dOps>>

\* enhanceDocument called on a map, as the package's tests call it.
CallEnhance ==
  /\ dCall.op = "none"
  /\ dOps = <<>>
  /\ \E m \in MapDocs :
       dCall' = [NoCall EXCEPT !.op = "enhance", !.doc = MapDoc(m),
                               !.out = enhanceDocument(m, dMode, dNow)]
  /\ UNCHANGED <<notDocs, dMode, dNow, dOps>>

\* bi.operations = append(bi.operations, op)
AppendOp(op) ==
  /\ dCall.op = "none"
  /\ Len(dOps) < MaxOps
  /\ dOps' = Append(dOps, op)
  /\ UNCHANGED <<notDocs, dMode, dNow, dCall>>

\* BulkIndexer.Create, CreateWithID, Index, Update, UpdateWithScript, Delete.
BulkCreate == \E d \in BulkDocs : AppendOp(BulkOp("create", EmptyId, d, NoScript))
BulkCreateWithID == \E d \in BulkDocs : AppendOp(BulkOp("create", UserId, d, NoScript))
BulkIndex ==
  \E id \in {EmptyId, UserId}, d \in BulkDocs : AppendOp(BulkOp("index", id, d, NoScript))
BulkUpdate == \E d \in BulkDocs : AppendOp(BulkOp("update", UserId, d, NoScript))
BulkUpdateWithScript == AppendOp(BulkOp("update", UserId, NilDoc, AScript))
BulkDelete == AppendOp(BulkOp("delete", UserId, NilDoc, NoScript))

\* BulkIndexer.Do: Execute on the accumulated operations; none is an error.
BulkDo ==
  /\ dCall.op = "none"
  /\ dCall' = IF Len(dOps) = 0
              THEN [NoCall EXCEPT !.op = "Do", !.err = <<"no", "operations", "provided">>]
              ELSE [NoCall EXCEPT !.op = "Do", !.sent = TRUE,
                                  !.lines = BulkBody(dOps, dMode, dNow)]
  /\ UNCHANGED <<notDocs, dMode, dNow, dOps>>

NextDocs ==
  \/ DocGet
  \/ DocDelete
  \/ DocIndex
  \/ DocCreateWithID
  \/ DocUpdate
  \/ CallEnhance
  \/ BulkCreate
  \/ BulkCreateWithID
  \/ BulkIndex
  \/ BulkUpdate
  \/ BulkUpdateWithScript
  \/ BulkDelete
  \/ BulkDo

\* ======================================================================
\* Search options (BuildSearchQuery) and the query Builder
\* ======================================================================
AggNames == {"categories", "avg_price", "price_ranges"}

\* AggregationBuilder.Build(): the aggregation as a map.
TermsAgg == [k \in {"terms"} |-> <<"f">>]

\* The options of a search: WithAggregation(name, agg), WithAggregations(aggs),
\* WithSize(size) and WithIndices(indices...), as the arguments they were made
\* with.
SearchOptions ==
  [kind : {"WithAggregation"}, name : AggNames, val : {TermsAgg}]
    \cup [kind : {"WithAggregations"}, name : {""},
          val : {[n \in {"categories"} |-> TermsAgg]}]
    \cup [kind : {"WithSize"}, name : {""}, val : {20}]
    \cup [kind : {"WithIndices"}, name : {""}, val : {<<"products">>}]

\* WithIndices(indices...): query["indices"] = indices.
WithIndices(query, indices) == Put(query, "indices", indices)

\* WithAggregations(aggs): query["aggs"] = aggs.
WithAggregations(query, aggs) == Put(query, "aggs", aggs)

\* WithAggregation(name, agg): WithAggregations of the one-entry map.
WithAggregation(query, name, agg) ==
  WithAggregations(query, [n \in {name} |-> agg])

\* WithSize(size): query["size"] = size.
WithSize(query, size) == Put(query, "size", size)

\* option(searchQuery)
ApplySearchOption(opt, query) ==
  CASE opt.kind = "WithAggregation" -> WithAggregation(query, opt.name, opt.val)
    [] opt.kind = "WithAggregations" -> WithAggregations(query, opt.val)
    [] opt.kind = "WithSize" -> WithSize(query, opt.val)
    [] opt.kind = "WithIndices" -> WithIndices(query, opt.val)

\* BuildSearchQuery: {"query": query}, then every option in turn.
RECURSIVE ApplySearchOptions(_, _)
ApplySearchOptions(options, query) ==
  IF options = <<>> THEN query
  ELSE ApplySearchOptions(Tail(options), ApplySearchOption(Head(options), query))
BuildSearchQuery(query, options) ==
  ApplySearchOptions(options, [k \in {"query"} |-> query])

\* extractIndicesFromOptions: the options applied to an empty map, and the
\* indices they left in it, or "_all".
extractIndicesFromOptions(options) ==
  LET temp == ApplySearchOptions(options, <<>>) IN
  IF "indices" \in DOMAIN temp THEN temp["indices"] ELSE <<"_all">>

SearchOptionLists == UNION {[1..n -> SearchOptions] : n \in 0..MaxSearchOptions}

\* ---- query.Builder ----
\* Builder.query of the constructors: New() is a bool query with four empty
\* clauses; Term, Match and Range(...).Build() are leaf queries.
MatchAllQuery == [k \in {"match_all"} |-> <<>>]
NewQuery ==
  [k \in {"bool"} |-> [c \in {"must", "must_not", "should", "filter"} |-> <<>>]]
TermQuery == [k \in {"term"} |-> <<"f">>]
MatchQuery == [k \in {"match"} |-> <<"f">>]
RangeQuery == [k \in {"range"} |-> <<"f">>]
LeafQueries == {TermQuery, MatchQuery, RangeQuery}

\* The builder methods for the clauses of a bool query, with the clause each
\* one appends to.
ClauseOf(method) ==
  CASE method = "Must" -> "must"
    [] method = "Filter" -> "filter"
    [] method = "Should" -> "should"
    [] method = "MustNot" -> "must_not"
BoolMethods == {"Must", "Filter", "Should", "MustNot", "MinimumShouldMatch"}

\* The method's name as the panic messages spell it.
MethodCall(method) ==
  CASE method = "Must" -> "Must()"
    [] method = "Filter" -> "Filter()"
    [] method = "Should" -> "Should()"
    [] method = "MustNot" -> "MustNot()"
    [] method = "MinimumShouldMatch" -> "MinimumShouldMatch()"

\* A faulty message, which C16 must tell apart from the real one: it does not
\* say which method was called.
PanicMessageAnonymous(method) ==
  <<"query:", "cannot", "call", "this", "on", "a", "non-bool", "query", "builder">>

\* The message each method panics with on a builder that is no bool query.
PanicMessage(method) ==
  <<"query:", "cannot", "call", MethodCall(method), "on", "a", "non-bool",
    "query", "builder">>

\* boolQuery, ok := b.query["bool"].(map[string]any)
IsBool(query) == "bool" \in DOMAIN query

\* Must, Filter, Should, MustNot (arg: the queries to append) and
\* MinimumShouldMatch (arg: the count) on a builder holding query: either a
\* panic with its message and no return value, or the builder's new query.
BoolMethod(method, query, arg) ==
  IF ~IsBool(query)
  THEN [panic |-> TRUE, msg |-> PanicMessage(method), query |-> query]
  ELSE IF method = "MinimumShouldMatch"
       THEN [panic |-> FALSE, msg |-> <<>>,
             query |-> [query EXCEPT !["bool"] = Put(@, "minimum_should_match", arg)]]
       ELSE [panic |-> FALSE, msg |-> <<>>,
             query |-> [query EXCEPT !["bool"] =
                          [@ EXCEPT ![ClauseOf(method)] = @ \o arg]]]

\* A second Builder's query map as a clause of the first: Build() returns the
\* map itself, and the clause holds that map, not a copy of it.
ChildRef == [k \in {"*child.query"} |-> <<>>]

\* The clauses as they are read through the maps they hold.
Deref(items, child) ==
  [i \in 1..Len(items) |-> IF items[i] = ChildRef THEN child ELSE items[i]]

\* Build() of the first Builder as its caller reads or marshals it: b.query,
\* with the second Builder's map where a clause holds it.
Build(query, child) ==
  IF ~IsBool(query) THEN query
  ELSE LET boolQuery == query["bool"] IN
       [query EXCEPT !["bool"] =
          [c \in DOMAIN boolQuery |->
             IF c = "minimum_should_match" THEN boolQuery[c]
             ELSE Deref(boolQuery[c], child)]]

\* The argument lists of the clause methods: one or two leaf queries.
ClauseArgs == {<<TermQuery>>, <<MatchQuery, TermQuery>>}

\* The last builder call: the method, whether it panicked, with what message,
\* whether it returned a builder.
NoBuilderCall == [method |-> "none", panic |-> FALSE, msg |-> <<>>, returned |-> FALSE]

\* A program that has built nothing yet.
InitQuery ==
  /\ qOptions = <<>>
  /\ qBody = <<>>
  /\ qSearched = FALSE
  /\ qBuilder \in {NewQuery} \cup LeafQueries
  /\ qCalls = 0
  /\ qLast = NoBuilderCall
  /\ qIndex = <<>>
  /\ qChild = NewQuery

\* The query part at rest, under the other parts' specifications.
IdleQuery ==
  /\ qOptions = <<>>
  /\ qBody = <<>>
  /\ qSearched = FALSE
  /\ qBuilder = NewQuery
  /\ qCalls = 0
  /\ qLast = NoBuilderCall
  /\ qIndex = <<>>
  /\ qChild = NewQuery

\* A search with some options: the request body BuildSearchQuery makes.
CallSearch ==
  /\ ~qSearched
  /\ \E options \in SearchOptionLists :
       /\ qOptions' = options
       /\ qBody' = BuildSearchQuery(MatchAllQuery, options)
       /\ qIndex' = extractIndicesFromOptions(options)
  /\ qSearched' = TRUE
  /\ UNCHANGED <<notQuery, qBuilder, qCalls, qLast, qChild>>

\* One of Must, Filter, Should, MustNot called on the builder.
CallClause ==
  /\ ~qLast.panic
  /\ qCalls < MaxCalls
  /\ \E method \in BoolMethods \ {"MinimumShouldMatch"}, arg \in ClauseArgs :
       LET r == BoolMethod(method, qBuilder, arg) IN
       /\ qBuilder' = r.query
       /\ qLast' = [method |-> method, panic |-> r.panic, msg |-> r.msg,
                    returned |-> ~r.panic]
  /\ qCalls' = qCalls + 1
  /\ UNCHANGED <<notQuery, qOptions, qBody, qSearched, qIndex, qChild>>

\* MinimumShouldMatch called on the builder.
CallMinimumShouldMatch ==
  /\ ~qLast.panic
  /\ qCalls < MaxCalls
  /\ LET r == BoolMethod("MinimumShouldMatch", qBuilder, 1) IN
       /\ qBuilder' = r.query
       /\ qLast' = [method |-> "MinimumShouldMatch", panic |-> r.panic, msg |-> r.msg,
                    returned |-> ~r.panic]
  /\ qCalls' = qCalls + 1
  /\ UNCHANGED <<notQuery, qOptions, qBody, qSearched, qIndex, qChild>>

\* One of Must, Filter, Should, MustNot called on the builder with the second
\* Builder, a New() one, as its argument.
CallClauseWithChild ==
  /\ ~qLast.panic
  /\ qCalls < MaxCalls
  /\ \E method \in BoolMethods \ {"MinimumShouldMatch"} :
       LET r == BoolMethod(method, qBuilder, <<ChildRef>>) IN
       /\ qBuilder' = r.query
       /\ qLast' = [method |-> method, panic |-> r.panic, msg |-> r.msg,
                    returned |-> ~r.panic]
  /\ qCalls' = qCalls + 1
  /\ UNCHANGED <<notQuery, qOptions, qBody, qSearched, qIndex, qChild>>

\* One of Must, Filter, Should, MustNot called on the second Builder, which
\* holds a bool query.
CallChildClause ==
  /\ ~qLast.panic
  /\ qCalls < MaxCalls
  /\ \E method \in BoolMethods \ {"MinimumShouldMatch"}, arg \in ClauseArgs :
       qChild' = BoolMethod(method, qChild, arg).query
  /\ qCalls' = qCalls + 1
  /\ UNCHANGED <<notQuery, qOptions, qBody, qSearched, qIndex, qBuilder, qLast>>

NextQuery ==
  \/ CallSearch
  \/ CallClause
  \/ CallMinimumShouldMatch
  \/ CallClauseWithChild
  \/ CallChildClause

\* ======================================================================
\* TypedDocuments.Scroll: the start of a scroll
\* ======================================================================
\* What the server does with the initial search request: no answer (a
\* transport error), an error status, a 200 whose body does not decode, or a
\* 200 with the first batch. Both 200s have opened a scroll context.
StartAnswers == {"transport", "status", "undecodable", "ok"}
Opens(answer) == answer \in {"undecodable", "ok"}

\* startScrollSearch: an error unless the answer is a 200 that decodes.
startScrollSearch(answer) == IF answer = "ok" THEN "response" ELSE "error"

\* ConvertSearchResponse: every hit's source is unmarshalled into T; the first
\* one that does not fit is an error. hits[i] says whether hit i fits.
ConvertSearchResponse(hits) ==
  IF \A i \in 1..Len(hits) : hits[i] THEN "result" ELSE "error"

\* Scroll: [ret, clears]: what it returns and the clear-scroll requests it
\* issued on the way.
ScrollStart(answer, hits) ==
  IF startScrollSearch(answer) = "error" THEN [ret |-> "error", clears |-> 0]
  ELSE IF ConvertSearchResponse(hits) = "error" THEN [ret |-> "error", clears |-> 0]
  ELSE [ret |-> "iterator", clears |-> 0]

\* A caller about to start a scroll over stTotal matching documents in
\* batches of stSize; stHits is the first batch.
InitStart ==
  /\ stTotal \in 0..MaxDocs
  /\ stSize \in 1..MaxSize
  /\ stHits \in [1..Min(stTotal, stSize) -> BOOLEAN]
  /\ stAnswer \in StartAnswers
  /\ stLive = FALSE
  /\ stRet = "none"

\* The start part at rest, under the other parts' specifications.
IdleStart ==
  /\ stTotal = 0
  /\ stSize = 1
  /\ stHits = <<>>
  /\ stAnswer = "ok"
  /\ stLive = FALSE
  /\ stRet = "none"

\* The caller calls Scroll: the server answers, Scroll returns.
CallScroll ==
  /\ stRet = "none"
  /\ LET r == ScrollStart(stAnswer, stHits) IN
       /\ stRet' = r.ret
       /\ stLive' = (Opens(stAnswer) /\ r.clears = 0)
  /\ UNCHANGED <<notStart, stTotal, stSize, stHits, stAnswer>>

NextStart == CallScroll

\* ======================================================================
\* Specifications
\* ======================================================================
NextClient == HealthNext \/ MainNext \/ CloserNext \/ ServerFlip

\* The Client with a second goroutine that uses it.
NextRead == HealthNext \/ MainNext \/ ReaderNext \/ ServerFlip

NextScroll == IterNext \/ IterScan \/ IterClose

ScrollInit ==
  InitScroll /\ IdleClient /\ IdleShutdown /\ IdleConfig /\ IdleDocs /\ IdleQuery
    /\ IdleStart
SpecScroll == ScrollInit /\ [][NextScroll]_vars

ClientInit ==
  InitClient /\ IdleScroll /\ IdleShutdown /\ IdleConfig /\ IdleDocs /\ IdleQuery
    /\ IdleStart
SpecClient == ClientInit /\ [][NextClient]_vars
SpecRead == ClientInit /\ [][NextRead]_vars

\* The Go scheduler runs every runnable goroutine: the health goroutine (and the
\* ticker) keeps taking steps while it has one to take.
FairClient == SpecClient /\ WF_vars(HealthNext)

ShutdownInit ==
  InitShutdown /\ IdleScroll /\ IdleClient /\ IdleConfig /\ IdleDocs /\ IdleQuery
    /\ IdleStart
SpecShutdown == ShutdownInit /\ [][NextShutdown]_vars

ConfigInit ==
  InitConfig /\ IdleScroll /\ IdleClient /\ IdleShutdown /\ IdleDocs /\ IdleQuery
    /\ IdleStart
SpecConfig == ConfigInit /\ [][NextConfig]_vars

DocsInit ==
  InitDocs /\ IdleScroll /\ IdleClient /\ IdleShutdown /\ IdleConfig /\ IdleQuery
    /\ IdleStart
SpecDocs == DocsInit /\ [][NextDocs]_vars

StartInit ==
  InitStart /\ IdleScroll /\ IdleClient /\ IdleShutdown /\ IdleConfig /\ IdleDocs
    /\ IdleQuery
SpecStart == StartInit /\ [][NextStart]_vars

QueryInit ==
  InitQuery /\ IdleScroll /\ IdleClient /\ IdleShutdown /\ IdleConfig /\ IdleDocs
    /\ IdleStart
SpecQuery == QueryInit /\ [][NextQuery]_vars

\* ======================================================================
\* Claims
\* ======================================================================

\* C1: over the life of a scroll iterator exactly one clear-scroll request is
\* issued for its context: never more than one, and one has been issued once
\* iteration has reached Done or Close has been called.
C1_ExactlyOneClearScroll ==
  /\ clearIssued <= 1
  /\ (it.done \/ closeCalled) => clearIssued = 1

\* C2: with the health loop and reconnect enabled, once a health-loop ping has
\* failed and attemptReconnect has attempts left, if the server is reachable
\* from then on, the Client eventually is connected with its reconnect count
\* incremented.
ReconnectHasAttemptsLeft ==
  \/ pc["health"] = "rc_loop" /\ attempts < ccfg.MaxReconnectAttempts
  \/ pc["health"] \in {"connect_lock", "connect_probe"}
C2_ReconnectEventuallySucceeds ==
  ReconnectHasAttemptsLeft ~> ((isConnected /\ reconnectCount > 0) \/ ~serverUp)

\* C3: when Next has fetched an empty batch and returned false, a clear-scroll
\* request was issued during that call and the iterator's scroll id is empty.
C3_ReleasedWhenDone ==
  (lastNext.ret = "false" /\ lastNext.emptyFetch)
    => (lastNext.issued /\ it.scrollID = NoScroll)

\* C5: after Close has returned, the health goroutine (when one was started)
\* eventually terminates.
C5_HealthLoopStopsAfterClose ==
  (closeReturned /\ pc["health"] # "off") ~> (pc["health"] = "exited")

\* C6: Scan returns an error whenever it is called before the first Next that
\* returned true or after a Next that returned false.
C6_ScanFailsOutsideIteration ==
  lastScan.pre => lastScan.res = "err"

\* C4: a run of shutdown() ends in one of two ways and does so in time: Wait
\* returns only when the worker closed done before the total timeout; the
\* process is aborted only when the worker did not, and then exactly the
\* force-kill timeout after the total timeout; and while neither has happened
\* no more than total timeout + force-kill timeout has passed since the start.
C4_ShutdownOutcomeInTime ==
  /\ wpc = "returned" =>
        (doneAt >= 0 /\ doneAt < smcfg.Timeout /\ endAt < smcfg.Timeout)
  /\ wpc = "exited" =>
        /\ ~(doneAt >= 0 /\ doneAt < smcfg.Timeout)
        /\ endAt = smcfg.Timeout + smcfg.ForceKillTimeout
  /\ wpc \in {"select", "force"} =>
        now <= smcfg.Timeout + smcfg.ForceKillTimeout

\* C4 witness: a run that was aborted after its force-kill sleep, following a
\* run whose Wait returned normally.
C4_Witness ==
  /\ wpc = "exited"
  /\ drains = 2
  /\ smcfg.ForceKillTimeout > 0

\* C7: an instance is recorded once however often it is registered, and a run
\* of shutdown invokes its Close once.
C7_RegisteredOnce ==
  /\ \A i, j \in 1..Len(clients) :
        (i # j /\ clients[i] # Nil) => clients[i] # clients[j]
  /\ \A i, j \in 1..Len(resources) :
        (i # j /\ resources[i] # Nil) => resources[i] # resources[j]
  /\ \A a, b \in 1..Len(closeLog) :
        a # b => closeLog[a].id # closeLog[b].id

\* C8: the shutdown sequence runs at most once: the drain worker is started at
\* most once, however many signals arrive and however often Wait is called.
C8_ShutdownRunsOnce == drains <= 1

\* C9: within a run of shutdown, the context is cancelled before any Close is
\* invoked, no Client is closed after a Shutdownable, Close is invoked in
\* registration order within each group, and once a Shutdownable is being
\* closed every (non-nil) Client registered when the drain began has been.
C9_DrainOrder ==
  /\ closeLog # <<>> => ctxCancelled
  /\ \A a, b \in 1..Len(closeLog) :
        a < b =>
          /\ ~(closeLog[a].kind = "resource" /\ closeLog[b].kind = "client")
          /\ closeLog[a].kind = closeLog[b].kind => closeLog[a].pos < closeLog[b].pos
  /\ (\E a \in 1..Len(closeLog) : closeLog[a].kind = "resource") =>
        \A i \in 1..Len(snapC) :
          snapC[i] # Nil =>
            \E b \in 1..Len(closeLog) :
              closeLog[b].kind = "client" /\ closeLog[b].pos = i

\* C9 witness: a drain that has closed a Client and then a Shutdownable.
C9_Witness ==
  /\ Len(closeLog) = 2
  /\ closeLog[1].kind = "client"
  /\ closeLog[2].kind = "resource"

\* What the claim calls a Config that satisfies validation.
ConfigIsValid(c) ==
  /\ c.CloudID = "" =>
        /\ Len(c.Hosts) > 0
        /\ \A i \in 1..Len(c.Hosts) : \E k \in 1..Len(c.Hosts[i]) : c.Hosts[i][k] = ":"
  /\ c.ConnectTimeout > 0
  /\ c.RequestTimeout > 0
  /\ c.MaxRetries >= 0
  /\ c.IDMode \in {"elastic", "ulid", "custom"}
  /\ c.LogLevel \in {"debug", "info", "warn", "error"}
  /\ c.LogFormat \in {"json", "text"}

\* C10 as stated: every Client NewClient returns holds a Config that satisfies
\* validation, whichever options produced it.
C10_ClientConfigValid ==
  ncResult.status = "ok" => ConfigIsValid(ncResult.config)

\* The options that leave the connection settings of the loaded Config alone.
KeepsLoadedConfig(options) ==
  \A i \in 1..Len(options) : options[i].kind \in {"WithTLS", "FromEnv"}

\* C10 amended: a Client NewClient returns holds a Config that satisfies
\* validation when environment loading succeeded and no WithConfig, WithHosts or
\* WithCloudID option replaced or changed the loaded Config.
C10_LoadedConfigValid ==
  (/\ ncResult.status = "ok"
   /\ ~loadConfigWithPrefix(ncEnv).err
   /\ KeepsLoadedConfig(ncOptions))
    => ConfigIsValid(ncResult.config)

\* C10 witness: NewClient returned a Client built from the environment and
\* options that keep the loaded Config.
C10_Witness ==
  /\ ncResult.status = "ok"
  /\ ~loadConfigWithPrefix(ncEnv).err
  /\ Len(ncOptions) = 2
  /\ KeepsLoadedConfig(ncOptions)
  /\ ncResult.config.TLSEnabled

C18_CloseIdempotent ==
  /\ [](~closePanic)
  /\ [](closeReturned => (shutdownClosed /\ onceDone))
  /\ [][\A t \in {"main", "closer"} :
         ((UserClose(t) \/ CloseOnce(t)) /\ shutdownClosed)
         => UNCHANGED <<shutdownClosed, ticker, tickPending, onceDone, client,
                        isConnected, reconnectCount, mutexW>>]_vars

\* C18 witness: a Close has closed the channel and returned while another call,
\* which found the latch open, is waiting for the latch's lock.
C18_Witness ==
  /\ closeReturned
  /\ shutdownClosed
  /\ pc["closer"] = "once_slow"
  /\ pc["main"] = "idle"

\* C19: the step on which a Ping returns after its probe leaves isConnected
\* equal to the probe's result, and a caller's Ping goes from its call to its
\* return without entering connect or attemptReconnect and without replacing
\* the handle.
C19_PingSetsConnected ==
  [][/\ \A t \in {"main", "health"} :
          (pc[t] = "ping_set" /\ pc'[t] # "ping_set") => (isConnected' = probeOk[t])
     /\ (pc["main"] \in {"ping_read", "ping_probe", "ping_set"} /\ pc'["main"] # pc["main"])
          => /\ pc'["main"] \in {"ping_probe", "ping_set", "idle"}
             /\ client' = client
             /\ reconnectCount' = reconnectCount
             /\ mutexW' = mutexW]_vars

\* C19 witness: a caller's Ping has returned an error on a Client that holds a
\* handle, and the Client is marked disconnected.
C19_Witness ==
  /\ lastPing = "err"
  /\ pc["main"] = "idle"
  /\ client = "es"
  /\ ~isConnected

\* C20: a Client marked connected holds a handle.
C20_ConnectedHasHandle == isConnected => client # "nil"

\* C20 witness: the health loop's Ping failed and it is about to reconnect,
\* while a caller's Ping has marked the Client connected again.
C20_Witness ==
  /\ isConnected
  /\ client = "es"
  /\ pc["health"] = "rc_lock"

\* C11: when Get or Delete is answered with status 404, or Get with a body
\* whose found member is false, the error returned is one for which
\* IsNotFoundError reports true.
C11_NotFoundIsClassified ==
  (/\ dCall.op \in {"Get", "Delete"}
   /\ ~dCall.res.transport
   /\ \/ dCall.res.status = NotFoundStatus
      \/ (dCall.op = "Get" /\ ~IsError(dCall.res.status) /\ ~dCall.res.found))
  => IsNotFoundError(dCall.err)

\* The lines of a bulk request body are, for each operation in the order of
\* the appends, its action line, followed by exactly one line that is not an
\* action line unless the operation is a delete.
IsActionLine(line) ==
  Len(line) = 1 /\ line[1][1] \in {"index", "create", "update", "delete"}
RECURSIVE TwoLinePerOp(_, _)
TwoLinePerOp(ops, lines) ==
  IF ops = <<>> THEN lines = <<>>
  ELSE /\ lines # <<>>
       /\ IsActionLine(Head(lines))
       /\ Head(lines) = ActionLine(Head(ops))
       /\ IF Head(ops).Action = "delete"
          THEN TwoLinePerOp(Tail(ops), Tail(lines))
          ELSE /\ Len(lines) >= 2
               /\ ~IsActionLine(lines[2])
               /\ TwoLinePerOp(Tail(ops), Tail(Tail(lines)))

\* C12: the body Do sends has, for each accumulated operation in append
\* order, one action line, then one body line for an index, create or update
\* and none for a delete.
C12_BulkWireFormat ==
  (dCall.op = "Do" /\ dCall.sent) => TwoLinePerOp(dOps, dCall.lines)

\* The document a body line carries: the doc member of an update body, the
\* line itself otherwise.
DocumentOf(line) == IF HasKey(line, "doc") THEN Member(line, "doc") ELSE line

\* C13: every document body a write sends (the body of Index, CreateWithID and
\* Update, and every line of a bulk body that is neither an action line nor a
\* script) contains updated_at and created_at.
C13_WritesAreEnhanced ==
  (dCall.op \in {"Index", "CreateWithID", "Update", "Do"} /\ dCall.sent)
  => \A i \in 1..Len(dCall.lines) :
       LET line == dCall.lines[i] IN
       (~IsActionLine(line) /\ ~HasKey(line, "script"))
       => /\ HasKey(DocumentOf(line), "updated_at")
          /\ HasKey(DocumentOf(line), "created_at")

\* C14: the map enhanceDocument returns has every field of the caller's map
\* (with the caller's value, updated_at apart), updated_at at the current
\* time, created_at at the caller's value or else the current time, and _id
\* exactly when the caller gave one (kept as it is) or the id mode is ulid (a
\* generated id of 26 characters); it has no other field.
C14_EnhancerContract ==
  dCall.op = "enhance" =>
    LET m == dCall.doc.m
        out == dCall.out
    IN  /\ \A f \in (DOMAIN m) \ {"updated_at"} : f \in DOMAIN out /\ out[f] = m[f]
        /\ DOMAIN out \subseteq (DOMAIN m) \cup {"_id", "created_at", "updated_at"}
        /\ "updated_at" \in DOMAIN out /\ out["updated_at"] = dNow
        /\ "created_at" \in DOMAIN out
        /\ out["created_at"] = IF "created_at" \in DOMAIN m THEN m["created_at"] ELSE dNow
        /\ ("_id" \in DOMAIN out) <=> ("_id" \in DOMAIN m \/ dMode = "ulid")
        /\ ("_id" \in DOMAIN m) => (out["_id"] = m["_id"])
        /\ ("_id" \notin DOMAIN m /\ dMode = "ulid") => (Len(out["_id"]) = UlidLen)

\* C14 witness: enhanceDocument has run in ulid mode on a map that has a name,
\* created_at and updated_at of the caller's and no _id.
C14_Witness ==
  /\ dCall.op = "enhance"
  /\ dMode = "ulid"
  /\ DOMAIN dCall.doc.m = {"name", "created_at", "updated_at"}
  /\ "_id" \in DOMAIN dCall.out

\* C15: after a search made with several WithAggregation options of distinct
\* names (and no other option), the aggs of the request body hold every one of
\* them under its name.
C15_AggregationsMerge ==
  (/\ qSearched
   /\ Len(qOptions) >= 2
   /\ \A i \in 1..Len(qOptions) : qOptions[i].kind = "WithAggregation"
   /\ \A i, j \in 1..Len(qOptions) : i # j => qOptions[i].name # qOptions[j].name)
  => /\ "aggs" \in DOMAIN qBody
     /\ \A i \in 1..Len(qOptions) :
          /\ qOptions[i].name \in DOMAIN qBody["aggs"]
          /\ qBody["aggs"][qOptions[i].name] = qOptions[i].val

\* C16: a call of Must, Filter, Should, MustNot or MinimumShouldMatch on a
\* builder that holds no bool query panics, returns no builder, and its
\* message contains the name of the method called.
C16_LeafBuilderPanics ==
  (qLast.method \in BoolMethods /\ ~IsBool(qBuilder))
  => /\ qLast.panic
     /\ ~qLast.returned
     /\ \E i \in 1..Len(qLast.msg) : qLast.msg[i] = MethodCall(qLast.method)

\* C16 witness: MinimumShouldMatch has been called on the builder of a range
\* query and has panicked.
C16_Witness ==
  /\ qLast.method = "MinimumShouldMatch"
  /\ qBuilder = RangeQuery
  /\ qLast.panic

\* C21: every invocation of attemptReconnect terminates: once the health
\* goroutine is inside it (in its loop or in a connect it called), it
\* eventually returns to the health loop's select.
C21_ReconnectTerminates ==
  (pc["health"] \in {"rc_loop", "connect_lock", "connect_probe"})
    ~> (pc["health"] \in {"select", "exited"})

\* C22: the health goroutine never waits forever for the Client's mutex: from
\* each place where Ping, attemptReconnect or connect asks for the lock, it
\* eventually moves on.
C22_NoLockWaitForever ==
  \A w \in {"ping_read", "ping_set", "rc_lock", "connect_lock"} :
    (pc["health"] = w) ~> (pc["health"] # w)

\* C24: every delay attemptReconnect has slept before a connect attempt is at
\* most MaxReconnectDelay.
C24_SleepWithinMaxDelay == lastSleep <= ccfg.MaxReconnectDelay

\* C26: when Scroll has returned an error, the server holds no scroll context
\* opened by that call.
C26_FailedScrollLeavesNoContext == (stRet = "error") => ~stLive

\* C25: when every Close of a run of shutdown() has returned before the total
\* timeout has passed since its start, the run does not take the timeout
\* branch: Wait returns and the process is not aborted.
C25_InTimeClosesReturnNormally ==
  (closedAt >= 0 /\ closedAt < smcfg.Timeout) => wpc \notin {"force", "exited"}

\* C27: for every operation added with BulkIndexer.Update(id, document), the
\* body Do sends has, right after that operation's action line, a line whose
\* doc member is the given document.
C27_BulkUpdateCarriesDocument ==
  (dCall.op = "Do" /\ dCall.sent)
  => \A i \in 1..Len(dOps) :
       (dOps[i].Action = "update" /\ ~dOps[i].Document.isNil)
       => \E j \in 2..Len(dCall.lines) :
            /\ dCall.lines[j - 1] = ActionLine(dOps[i])
            /\ HasKey(dCall.lines[j], "doc")
            /\ Member(dCall.lines[j], "doc") = Marshal(dOps[i].Document.m)

\* C29: after Index, CreateWithID or Update has returned, the map the caller
\* passed has the keys and values it had before the call.
C29_CallerInputUnchanged ==
  dCall.op \in {"Index", "CreateWithID", "Update"} => dCall.after = dCall.doc.m

\* C28: the body of a search request has search-body keys only, and the
\* indices given with WithIndices are the request's target and no key of the
\* body.
C28_BodyHasSearchKeysOnly ==
  qSearched => /\ DOMAIN qBody \subseteq
                    {"query", "size", "from", "sort", "_source", "aggs", "timeout"}
               /\ \A i \in 1..Len(qOptions) :
                    qOptions[i].kind = "WithIndices" => qIndex = qOptions[i].val

\* C30: once a second Builder has been passed to Must, Filter, Should or
\* MustNot of the first, a clause-adding call on the second leaves what the
\* first one's Build() gives as it was.
C30_ParentBodyKeepsValue ==
  [][CallChildClause => Build(qBuilder, qChild)' = Build(qBuilder, qChild)]_vars

\* C23: every operation of a caller that reads the Client's handle holds the
\* read lock at the read, and no such read is made while connect or
\* attemptReconnect holds the write lock.
C23_HandleReadUnderRLock ==
  lastRead.op # "none" => (lastRead.rlocked /\ lastRead.writer = "none")
====
